---- MODULE Spec2Model ----
(***************************************************************************)
(* Model of src/src/App.tsx: the competitive-intelligence App component.   *)
(* Strings that the code inspects character by character (toLowerCase,     *)
(* includes, trim, join, regex tests) are sequences of one-character       *)
(* strings; strings that are only copied or compared whole are TLA+        *)
(* strings.                                                                *)
(***************************************************************************)
EXTENDS Integers, Sequences, FiniteSets, TLC

VARIABLES
  insights,    \* useState<any[]>([])                      App.tsx:59
  query,       \* useState("")                             App.tsx:60
  competitor,  \* useState("All")                          App.tsx:61
  from,        \* useState("")                             App.tsx:62
  to,          \* useState("")                             App.tsx:63
  curated,     \* useLocalStorage("ciapp_curated_v3", [])  App.tsx:65
  loading,     \* useState(true)                           App.tsx:68
  cancelled,   \* let cancelled = false                    App.tsx:72
  calls,       \* load() calls in flight, by await they are suspended at
  dev,         \* import.meta.env.DEV                      App.tsx:85
  lastLoad,    \* history: how the load call that finished last ended
  fetched,     \* history: the arrays r.json() has returned so far
  lastCurated, \* history: id -> the card made by the latest curate(i) of that id
  badgeTags,   \* SeverityBadge props.tags                 App.tsx:285
  badge,       \* what SeverityBadge rendered              App.tsx:286
  copied,      \* useState(false)                          App.tsx:67
  clipboard    \* the text navigator.clipboard holds       App.tsx:123

vars == <<insights, query, competitor, from, to, curated, loading, cancelled,
          calls, dev, lastLoad, fetched, lastCurated, badgeTags, badge,
          copied, clipboard>>

appVars == <<insights, query, competitor, from, to, curated, loading, cancelled,
             calls, dev, lastLoad, fetched, lastCurated, copied, clipboard>>

badgeVars == <<badgeTags, badge>>

digestVars == <<copied, clipboard>>

----------------------------------------------------------------------------
(* Bounds of the model *)

MaxTags == 3

----------------------------------------------------------------------------
(* JavaScript string primitives *)

UpperLetters == <<"A", "B", "C", "D", "E", "F", "G", "H", "I", "J", "K", "L", "M", "N", "O", "P", "Q", "R", "S", "T", "U", "V", "W", "X", "Y", "Z">>
LowerLetters == <<"a", "b", "c", "d", "e", "f", "g", "h", "i", "j", "k", "l", "m", "n", "o", "p", "q", "r", "s", "t", "u", "v", "w", "x", "y", "z">>

\* String.prototype.toLowerCase, one character
LowerChar(c) ==
  IF \E k \in 1..Len(UpperLetters) : UpperLetters[k] = c
  THEN LowerLetters[CHOOSE k \in 1..Len(UpperLetters) : UpperLetters[k] = c]
  ELSE c

\* String.prototype.toLowerCase
toLowerCase(s) == [k \in 1..Len(s) |-> LowerChar(s[k])]

\* String.prototype.includes: q occurs in s as a contiguous substring
includes(s, q) ==
  \E k \in 0..(Len(s) - Len(q)) : SubSeq(s, k + 1, k + Len(q)) = q

\* Array.prototype.join(sep) over an array of strings
RECURSIVE join(_, _)
join(arr, sep) ==
  IF Len(arr) = 0 THEN <<>>
  ELSE IF Len(arr) = 1 THEN arr[1]
  ELSE arr[1] \o sep \o join(Tail(arr), sep)

\* Array.prototype.includes: x is an element of arr (strict equality)
arrayIncludes(arr, x) == \E k \in 1..Len(arr) : arr[k] = x

\* String.prototype.trim: strip leading and trailing white space
RECURSIVE trimStart(_)
trimStart(s) ==
  IF Len(s) > 0 /\ s[1] = " " THEN trimStart(Tail(s)) ELSE s

RECURSIVE trimEnd(_)
trimEnd(s) ==
  IF Len(s) > 0 /\ s[Len(s)] = " " THEN trimEnd(SubSeq(s, 1, Len(s) - 1)) ELSE s

trim(s) == trimEnd(trimStart(s))

\* All sequences over S of length at most n
SeqsUpTo(S, n) == UNION {[1..k -> S] : k \in 0..n}

----------------------------------------------------------------------------
(* Tag literals *)

tag_AI == <<"A", "I">>
tag_Pricing == <<"P", "r", "i", "c", "i", "n", "g">>
tag_E_bidding == <<"E", "-", "b", "i", "d", "d", "i", "n", "g">>

\* Tags the badge is rendered with: the tags the code names and tags that
\* differ from them in letter case, in position inside a longer word, or
\* that match no rule.
t_PRICING == <<"P", "R", "I", "C", "I", "N", "G">>
t_pricing == <<"p", "r", "i", "c", "i", "n", "g">>
t_Repricing == <<"R", "e", "p", "r", "i", "c", "i", "n", "g">>
t_Price == <<"P", "r", "i", "c", "e">>
t_Bundling == <<"B", "u", "n", "d", "l", "i", "n", "g">>
t_ai == <<"a", "i">>
t_Training == <<"T", "r", "a", "i", "n", "i", "n", "g">>
t_Integration == <<"I", "n", "t", "e", "g", "r", "a", "t", "i", "o", "n">>
t_Survey == <<"S", "u", "r", "v", "e", "y">>
t_Safety == <<"S", "a", "f", "e", "t", "y">>

----------------------------------------------------------------------------
(* JavaScript numbers and dates.  A number is NaN, an infinity or a finite *)
(* value; instants are counted in minutes since 2024-05-01T00:00:00Z.      *)

NaN == [k |-> "NaN", v |-> 0]
Infinity == [k |-> "Infinity", v |-> 1]
NegInfinity == [k |-> "Infinity", v |-> -1]
Num(n) == [k |-> "finite", v |-> n]

\* a >= b on numbers: false as soon as one side is NaN
GreaterEq(a, b) ==
  /\ a.k # "NaN"
  /\ b.k # "NaN"
  /\ IF a.k = "Infinity" THEN (a.v = 1 \/ (b.k = "Infinity" /\ b.v = -1))
     ELSE IF b.k = "Infinity" THEN b.v = -1
     ELSE a.v >= b.v

\* a <= b on numbers
LessEq(a, b) == GreaterEq(b, a)

\* The date strings that Date parses, with the instant each denotes.  A
\* date-only form is UTC midnight of that day.
DateValue ==
  [s \in {"2024-05-01", "2024-05-02", "2024-05-03",
          "2024-05-01T12:00:00Z", "2024-05-02T00:00:00Z", "2024-05-02T12:00:00Z",
          "2024-04-30T22:00:00.000Z", "2024-05-01T22:00:00.000Z",
          "2024-05-02T18:00:00.000Z", "2024-05-02T22:30:00.000Z",
          "2024-05-02T23:48:00.000Z"} |->
     CASE s = "2024-05-01" -> 0
       [] s = "2024-05-02" -> 1440
       [] s = "2024-05-03" -> 2880
       [] s = "2024-05-01T12:00:00Z" -> 720
       [] s = "2024-05-02T00:00:00Z" -> 1440
       [] s = "2024-05-02T12:00:00Z" -> 2160
       [] s = "2024-04-30T22:00:00.000Z" -> -120
       [] s = "2024-05-01T22:00:00.000Z" -> 1320
       [] s = "2024-05-02T18:00:00.000Z" -> 2520
       [] s = "2024-05-02T22:30:00.000Z" -> 2790
       [] s = "2024-05-02T23:48:00.000Z" -> 2868]

\* new Date(s).getTime(): NaN for a string Date cannot parse
getTime(s) == IF s \in DOMAIN DateValue THEN Num(DateValue[s]) ELSE NaN

\* new Date(s).toLocaleString(): the rendering of the instant, or the text
\* "Invalid Date"
toLocaleString(s) ==
  IF getTime(s) = NaN THEN <<"Invalid Date">> ELSE <<"local time", getTime(s).v>>

----------------------------------------------------------------------------
(* Insight records *)

str_All == <<"A", "l", "l">>
str_ISNetworld == <<"I", "S", "N", "e", "t", "w", "o", "r", "l", "d">>
str_Avetta == <<"A", "v", "e", "t", "t", "a">>
str_KPA_Flex == <<"K", "P", "A", " ", "F", "l", "e", "x">>
str_VendorPM == <<"V", "e", "n", "d", "o", "r", "P", "M">>
str_Gartner == <<"G", "a", "r", "t", "n", "e", "r", " ", "P", "e", "e", "r", " ", "I", "n", "s", "i", "g", "h", "t", "s">>

txt_AskAI == <<"A", "s", "k", " ", "A", "I">>
txt_AskAI2 == <<"A", "s", "k", " ", "A", "I", " ", "2", ".", "0">>
txt_search == <<"F", "a", "s", "t", "e", "r", " ", "s", "e", "a", "r", "c", "h">>
txt_Bundle == <<"S", "D", "S", " ", "b", "u", "n", "d", "l", "e">>
txt_unified == <<"U", "n", "i", "f", "i", "e", "d", " ", "P", "R", "I", "C", "I", "N", "G">>
txt_Culture == <<"C", "u", "l", "t", "u", "r", "e", "S", "i", "g", "h", "t">>
txt_perception == <<"P", "e", "r", "c", "e", "p", "t", "i", "o", "n", " ", "t", "r", "e", "n", "d", "s">>
txt_Untitled == <<"U", "n", "d", "a", "t", "e", "d", " ", "n", "o", "t", "e">>
txt_none == <<"n", "/", "a">>

Insight(id, comp, title, summary, sourceName, date, tags) ==
  [id |-> id, competitor |-> comp, title |-> title, summary |-> summary,
   sourceName |-> sourceName, sourceUrl |-> "https://example.com/" \o id,
   date |-> date, tags |-> tags]

seed_title1 == <<"I", "S", "N", " ", "a", "n", "n", "o", "u", "n", "c", "e", "s", " ", "e", "n", "h", "a", "n", "c", "e", "d", " ", "W", "o", "r", "k", "e", "r", "s", "'", " ", "C", "o", "m", "p", " ", "a", "n", "a", "l", "y", "t", "i", "c", "s", " ", "f", "o", "r", " ", "C", "A", "/", "A", "U">>
seed_summary1 == <<"A", "d", "d", "s", " ", "e", "x", "e", "m", "p", "t", "i", "o", "n", " ", "t", "r", "a", "c", "k", "i", "n", "g", ",", " ", "h", "i", "s", "t", "o", "r", "i", "c", "a", "l", " ", "W", "C", " ", "d", "a", "t", "a", ",", " ", "a", "n", "d", " ", "i", "m", "p", "r", "o", "v", "e", "d", " ", "r", "e", "p", "o", "r", "t", "i", "n", "g", ";", " ", "s", "h", "i", "f", "t", "s", " ", "c", "u", "s", "t", "o", "m", "e", "r", " ", "c", "o", "n", "v", "e", "r", "s", "a", "t", "i", "o", "n", "s", " ", "t", "o", " ", "t", "r", "e", "n", "d", " ", "a", "n", "a", "l", "y", "s", "i", "s", " ", "o", "v", "e", "r", " ", "d", "o", "c", " ", "u", "p", "l", "o", "a", "d", "s", ".">>
seed_title2 == <<"A", "v", "e", "t", "t", "a", " ", "p", "r", "e", "v", "i", "e", "w", "s", " ", "A", "s", "k", "A", "v", "a", " ", "2", ".", "0", " ", "A", "I", " ", "f", "o", "r", " ", "c", "o", "n", "t", "r", "a", "c", "t", "o", "r", " ", "Q", "&", "A">>
seed_summary2 == <<"N", "a", "t", "u", "r", "a", "l", "-", "l", "a", "n", "g", "u", "a", "g", "e", " ", "s", "e", "a", "r", "c", "h", " ", "a", "c", "r", "o", "s", "s", " ", "c", "o", "m", "p", "l", "i", "a", "n", "c", "e", " ", "a", "r", "t", "i", "f", "a", "c", "t", "s", ";", " ", "p", "r", "o", "m", "i", "s", "e", "s", " ", "l", "o", "w", "e", "r", " ", "s", "u", "p", "p", "o", "r", "t", " ", "v", "o", "l", "u", "m", "e", " ", "a", "n", "d", " ", "f", "a", "s", "t", "e", "r", " ", "o", "n", "b", "o", "a", "r", "d", "i", "n", "g", " ", "f", "o", "r", " ", "s", "u", "p", "p", "l", "i", "e", "r", "s", ".">>
seed_title3 == <<"K", "P", "A", " ", "b", "u", "n", "d", "l", "e", "s", " ", "S", "D", "S", " ", "+", " ", "C", "o", "n", "t", "r", "a", "c", "t", "o", "r", " ", "M", "g", "m", "t", " ", "i", "n", " ", "p", "l", "a", "t", "f", "o", "r", "m", " ", "l", "i", "c", "e", "n", "s", "e">>
seed_summary3 == <<"U", "n", "i", "f", "i", "e", "d", " ", "p", "r", "i", "c", "i", "n", "g", " ", "(", "u", "p", " ", "t", "o", " ", "5", "0", " ", "u", "s", "e", "r", "s", ")", " ", "e", "m", "p", "h", "a", "s", "i", "z", "e", "s", " ", "c", "o", "n", "f", "i", "g", "u", "r", "a", "b", "i", "l", "i", "t", "y", " ", "a", "n", "d", " ", "m", "o", "b", "i", "l", "e", " ", "a", "c", "c", "e", "s", "s", ";", " ", "c", "o", "n", "s", "u", "l", "t", "a", "t", "i", "v", "e", " ", "s", "a", "l", "e", "s", " ", "m", "o", "t", "i", "o", "n", ".">>
seed_title4 == <<"V", "e", "n", "d", "o", "r", "P", "M", " ", "e", "x", "p", "a", "n", "d", "s", " ", "e", "-", "b", "i", "d", "d", "i", "n", "g", " ", "i", "n", "t", "e", "g", "r", "a", "t", "i", "o", "n", "s", " ", "w", "i", "t", "h", " ", "p", "r", "o", "c", "u", "r", "e", "m", "e", "n", "t", " ", "s", "u", "i", "t", "e", "s">>
seed_summary4 == <<"T", "i", "g", "h", "t", "e", "r", " ", "R", "F", "P", " ", "s", "y", "n", "c", " ", "e", "n", "a", "b", "l", "e", "s", " ", "e", "l", "i", "g", "i", "b", "i", "l", "i", "t", "y", " ", "c", "h", "e", "c", "k", "s", " ", "a", "t", " ", "i", "n", "v", "i", "t", "e", "/", "a", "w", "a", "r", "d", " ", "a", "n", "d", " ", "p", "u", "s", "h", "e", "s", " ", "c", "o", "m", "p", "l", "i", "a", "n", "c", "e", " ", "s", "t", "a", "t", "u", "s", "e", "s", " ", "i", "n", "t", "o", " ", "b", "u", "y", "e", "r", " ", "w", "o", "r", "k", "f", "l", "o", "w", "s", ".">>
seed_title5 == <<"C", "u", "l", "t", "u", "r", "e", "S", "i", "g", "h", "t", " ", "a", "d", "d", "s", " ", "s", "a", "f", "e", "t", "y", " ", "c", "l", "i", "m", "a", "t", "e", " ", "t", "r", "e", "n", "d", " ", "b", "r", "e", "a", "k", "d", "o", "w", "n", "s">>
seed_summary5 == <<"P", "e", "r", "c", "e", "p", "t", "i", "o", "n", " ", "s", "u", "r", "v", "e", "y", "s", " ", "s", "u", "r", "f", "a", "c", "e", " ", "S", "I", "F", "-", "l", "e", "a", "d", "i", "n", "g", " ", "i", "n", "d", "i", "c", "a", "t", "o", "r", "s", " ", "b", "y", " ", "s", "i", "t", "e", " ", "a", "n", "d", " ", "t", "r", "a", "d", "e", " ", "f", "o", "r", " ", "t", "a", "r", "g", "e", "t", "e", "d", " ", "i", "n", "t", "e", "r", "v", "e", "n", "t", "i", "o", "n", "s", ".">>
seed_Product == <<"P", "r", "o", "d", "u", "c", "t">>
seed_WorkersComp == <<"W", "o", "r", "k", "e", "r", "s", "'", " ", "C", "o", "m", "p">>
seed_Analytics == <<"A", "n", "a", "l", "y", "t", "i", "c", "s">>
seed_Search == <<"S", "e", "a", "r", "c", "h">>
seed_Onboarding == <<"O", "n", "b", "o", "a", "r", "d", "i", "n", "g">>
seed_SalesMotion == <<"S", "a", "l", "e", "s", " ", "M", "o", "t", "i", "o", "n">>
seed_SIF == <<"S", "I", "F">>

\* Date.now() when the module is loaded is taken to be 2024-05-03T00:00:00Z.
seedInsights ==
  << [id |-> "i1", competitor |-> str_ISNetworld, title |-> seed_title1,
      summary |-> seed_summary1, sourceName |-> "Business Wire",
      sourceUrl |-> "https://www.businesswire.com/newsroom",
      date |-> "2024-05-02T18:00:00.000Z",
      tags |-> <<seed_Product, seed_WorkersComp, seed_Analytics>>],
     [id |-> "i2", competitor |-> str_Avetta, title |-> seed_title2,
      summary |-> seed_summary2, sourceName |-> "Company Blog",
      sourceUrl |-> "https://example.com/avetta-blog",
      date |-> "2024-05-01T22:00:00.000Z",
      tags |-> <<tag_AI, seed_Search, seed_Onboarding>>],
     [id |-> "i3", competitor |-> str_KPA_Flex, title |-> seed_title3,
      summary |-> seed_summary3, sourceName |-> "Analyst Note",
      sourceUrl |-> "https://example.com/analyst-memo",
      date |-> "2024-04-30T22:00:00.000Z",
      tags |-> <<tag_Pricing, t_Bundling, seed_SalesMotion>>],
     [id |-> "i4", competitor |-> str_VendorPM, title |-> seed_title4,
      summary |-> seed_summary4, sourceName |-> "Press Release",
      sourceUrl |-> "https://example.com/press",
      date |-> "2024-05-02T22:30:00.000Z",
      tags |-> <<t_Integration, tag_E_bidding>>],
     [id |-> "i5", competitor |-> str_ISNetworld, title |-> seed_title5,
      summary |-> seed_summary5, sourceName |-> "Product Notes",
      sourceUrl |-> "https://example.com/isn-culturesight",
      date |-> "2024-05-02T23:48:00.000Z",
      tags |-> <<t_Safety, t_Survey, seed_SIF>>] >>

----------------------------------------------------------------------------
(* Battle card generator: toBattleCard *)

impact_Default == "Raises buyer expectations for analytics clarity and workflow fit."
impact_AI == "Shifts narrative to AI-assist; raises bar for search and self-serve answers."
counter_TimeToValue == "Emphasize time-to-value with prebuilt scorecards & fast onboarding."
counter_Integration == "Show integration depth (RFP/award, APIs, export) with demos."
counter_TCO == "Publish TCO story vs. bundle pricing."
counter_AI == "Demo AI explainability and guardrails for regulated buyers."
counter_Pricing == "Offer side-by-side TCO with transparent tiers."
counter_EBidding == "Position eligibility checks at invite/award as buyer efficiency."

\* mutant: push in place of unshift
unshift_Appends(arr, x) == arr \o <<x>>

\* Array.prototype.unshift: x becomes the first element
unshift(arr, x) == <<x>> \o arr

toBattleCard(insight) ==
  LET base == [headline |-> insight.competitor \o <<":", " ">> \o insight.title,
               impact   |-> impact_Default,
               proof    |-> <<"Source: ", insight.sourceName, " (bullet) ">>
                              \o toLocaleString(insight.date),
               counters |-> <<counter_TimeToValue, counter_Integration, counter_TCO>>,
               link     |-> insight.sourceUrl,
               tags     |-> insight.tags]
      afterAI == IF arrayIncludes(insight.tags, tag_AI)
                 THEN [base EXCEPT !.impact = impact_AI,
                                   !.counters = unshift(@, counter_AI)]
                 ELSE base
      afterPricing == IF arrayIncludes(insight.tags, tag_Pricing)
                      THEN [afterAI EXCEPT !.counters = unshift(@, counter_Pricing)]
                      ELSE afterAI
      afterEBidding == IF arrayIncludes(insight.tags, tag_E_bidding)
                       THEN [afterPricing EXCEPT !.counters = unshift(@, counter_EBidding)]
                       ELSE afterPricing
  IN  afterEBidding

----------------------------------------------------------------------------
(* Filter engine: the filtered memo *)

\* mutant: the bounds are exclusive
inRange_Exclusive(i, start, end) ==
  LET t == getTime(i.date)
  IN  GreaterEq(t, start) /\ LessEq(t, end) /\ t # start /\ t # end

\* const inRange = t>=start && t<=end
inRange(i, start, end) ==
  LET t == getTime(i.date)
  IN  GreaterEq(t, start) /\ LessEq(t, end)

\* const byComp = competitor==="All"||i.competitor===competitor
byComp(i, comp) == comp = str_All \/ i.competitor = comp

\* mutant: the tags are not searched
byQuery_NoTags(i, q) ==
  \/ q = <<>>
  \/ includes(toLowerCase(i.title), q)
  \/ includes(toLowerCase(i.summary), q)

\* const byQuery = !q || title includes q || summary includes q || tags includes q
byQuery(i, q) ==
  \/ q = <<>>
  \/ includes(toLowerCase(i.title), q)
  \/ includes(toLowerCase(i.summary), q)
  \/ includes(toLowerCase(join(i.tags, <<" ">>)), q)

\* from ? new Date(from).getTime() : -Infinity
startOf(frm) == IF frm # "" THEN getTime(frm) ELSE NegInfinity

\* to ? new Date(to).getTime() : Infinity
endOf(t) == IF t # "" THEN getTime(t) ELSE Infinity

\* const q = query.trim().toLowerCase()
normalizedQuery(qry) == toLowerCase(trim(qry))

\* mutant: the scan starts at the second record
filterInsights_SkipsFirst(ins, qry, comp, frm, t) ==
  SelectSeq(IF ins = <<>> THEN <<>> ELSE Tail(ins),
            LAMBDA i : /\ inRange(i, startOf(frm), endOf(t))
                       /\ byComp(i, comp)
                       /\ byQuery(i, normalizedQuery(qry)))

\* insights.filter(i => inRange && byComp && byQuery)
filterInsights(ins, qry, comp, frm, t) ==
  SelectSeq(ins, LAMBDA i : /\ inRange(i, startOf(frm), endOf(t))
                            /\ byComp(i, comp)
                            /\ byQuery(i, normalizedQuery(qry)))

\* const filtered = useMemo(..., [insights,from,to,competitor,query])
filtered == filterInsights(insights, query, competitor, from, to)

\* const totalItems = insights.length
totalItems == Len(insights)

----------------------------------------------------------------------------
(* Snapshot loading: the effect of App.tsx:71-94 *)

MaxCalls == 2
MaxCurated == 2

\* The documents data/insights.json is served as: an array of records, or
\* JSON that is not an array.
ArrayDoc(arr) == [kind |-> "array", value |-> arr]
ObjectDoc == [kind |-> "object", value |-> <<>>]

\* Array.isArray(data)
isArray(data) == data.kind = "array"

rec_ask == Insight("n1", str_Avetta, txt_AskAI, txt_search, "Company Blog",
                   "2024-05-01T12:00:00Z", <<tag_AI>>)
\* the same insight id, re-crawled with another title and another tag
rec_ask2 == Insight("n1", str_Avetta, txt_AskAI2, txt_search, "Company Blog",
                    "2024-05-02T12:00:00Z", <<tag_AI, tag_Pricing>>)
rec_bundle == Insight("n2", str_KPA_Flex, txt_Bundle, txt_unified, "Analyst Note",
                      "2024-05-02T00:00:00Z", <<t_Bundling>>)
\* a record whose date does not parse
rec_undated == Insight("n3", str_ISNetworld, txt_Untitled, txt_none, "Press Release",
                       "not-a-date", <<t_Survey>>)

Snapshots == {<<rec_ask, rec_bundle>>, <<rec_ask2, rec_undated>>}

Documents == {ArrayDoc(s) : s \in Snapshots} \cup {ObjectDoc}

inFlight == calls.fetch + calls.json

\* mutant: the refresh appends the new records to the list it has
setInsights_Appends(old, data) == old \o data

\* setInsights(data)
setInsights(old, data) == data

\* mutant: the catch and finally blocks do not look at cancelled
CatchFinally_IgnoresCancelled ==
  /\ insights' = IF dev THEN seedInsights ELSE insights
  /\ loading' = FALSE
  /\ lastLoad' = "failed"

\* mutant: a failed load empties the list
CatchFinally_Clears ==
  /\ insights' = IF dev /\ ~cancelled THEN seedInsights ELSE <<>>
  /\ loading' = IF ~cancelled THEN FALSE ELSE loading
  /\ lastLoad' = "failed"

\* catch { if (import.meta.env.DEV && !cancelled) setInsights(seedInsights) }
\* finally { if (!cancelled) setLoading(false) }
CatchFinally ==
  /\ insights' = IF dev /\ ~cancelled THEN setInsights(insights, seedInsights)
                 ELSE insights
  /\ loading' = IF ~cancelled THEN FALSE ELSE loading
  /\ lastLoad' = "failed"

\* setInterval(load, 60_000) fires and calls load(), which suspends at fetch
Tick ==
  /\ ~cancelled
  /\ inFlight < MaxCalls
  /\ calls' = [calls EXCEPT !.fetch = @ + 1]
  /\ UNCHANGED <<insights, query, competitor, from, to, curated, loading,
                 cancelled, dev, lastLoad, fetched, lastCurated, badgeVars, digestVars>>

\* await fetch(url) resolves; a response that is not ok throws
FetchResolves ==
  /\ calls.fetch > 0
  /\ \E ok \in BOOLEAN :
       IF ok
       THEN /\ calls' = [calls EXCEPT !.fetch = @ - 1, !.json = @ + 1]
            /\ UNCHANGED <<insights, loading, lastLoad>>
       ELSE /\ calls' = [calls EXCEPT !.fetch = @ - 1]
            /\ CatchFinally
  /\ UNCHANGED <<query, competitor, from, to, curated, cancelled, dev, fetched,
                 lastCurated, badgeVars, digestVars>>

\* await fetch(url) rejects
FetchRejects ==
  /\ calls.fetch > 0
  /\ calls' = [calls EXCEPT !.fetch = @ - 1]
  /\ CatchFinally
  /\ UNCHANGED <<query, competitor, from, to, curated, cancelled, dev, fetched,
                 lastCurated, badgeVars, digestVars>>

\* await r.json() resolves with data
JsonResolves ==
  /\ calls.json > 0
  /\ \E data \in Documents :
       /\ insights' = IF ~cancelled /\ isArray(data)
                      THEN setInsights(insights, data.value) ELSE insights
       /\ lastLoad' = IF isArray(data) THEN "ok" ELSE "notArray"
       /\ fetched' = IF isArray(data) THEN fetched \cup {data.value} ELSE fetched
  /\ loading' = IF ~cancelled THEN FALSE ELSE loading
  /\ calls' = [calls EXCEPT !.json = @ - 1]
  /\ UNCHANGED <<query, competitor, from, to, curated, cancelled, dev,
                 lastCurated, badgeVars, digestVars>>

\* await r.json() rejects: the body is not JSON
JsonRejects ==
  /\ calls.json > 0
  /\ calls' = [calls EXCEPT !.json = @ - 1]
  /\ CatchFinally
  /\ UNCHANGED <<query, competitor, from, to, curated, cancelled, dev, fetched,
                 lastCurated, badgeVars, digestVars>>

\* return () => { cancelled = true; clearInterval(t); }
Cleanup ==
  /\ ~cancelled
  /\ cancelled' = TRUE
  /\ UNCHANGED <<insights, query, competitor, from, to, curated, loading,
                 calls, dev, lastLoad, fetched, lastCurated, badgeVars, digestVars>>

\* useEffect(() => { if(!loading){return} setTimeout(()=>setLoading(false), 600) ... })
SkeletonTimeout ==
  /\ ~cancelled
  /\ loading
  /\ loading' = FALSE
  /\ UNCHANGED <<insights, query, competitor, from, to, curated, cancelled,
                 calls, dev, lastLoad, fetched, lastCurated, badgeVars, digestVars>>

----------------------------------------------------------------------------
(* Curation *)

\* const c = { id:i.id, competitor:i.competitor, ...toBattleCard(i) }
cardOf(i) == [id |-> i.id, competitor |-> i.competitor] @@ toBattleCard(i)

\* mutant: the new card is put in front and the earlier card is kept
replaceById_KeepsOld(prev, c) == <<c>> \o prev

\* prev => [c, ...prev.filter(x => x.id !== c.id)]
replaceById(prev, c) == <<c>> \o SelectSeq(prev, LAMBDA x : x.id # c.id)

\* The cards localStorage may hold at start-up
StoredCurated == {<<>>, <<cardOf(rec_ask)>>}

\* onClick={() => curate(i)} on an item of the rendered feed
curate(i) ==
  /\ ~cancelled
  /\ ~loading
  /\ arrayIncludes(filtered, i)
  /\ Len(replaceById(curated, cardOf(i))) <= MaxCurated
  /\ curated' = replaceById(curated, cardOf(i))
  /\ lastCurated' = [id \in DOMAIN lastCurated \cup {i.id} |->
                       IF id = i.id THEN cardOf(i) ELSE lastCurated[id]]
  /\ UNCHANGED <<insights, query, competitor, from, to, loading, cancelled,
                 calls, dev, lastLoad, fetched, badgeVars, digestVars>>

Curate == \E k \in 1..Len(insights) : curate(insights[k])

----------------------------------------------------------------------------
(* The filter controls *)

MaxInsights == 2

COMPETITORS == {str_ISNetworld, str_Avetta, str_KPA_Flex, str_VendorPM, str_Gartner}

q_survey == <<"s", "u", "r", "v", "e", "y">>
q_survey_padded == <<" ", "s", "u", "r", "v", "e", "y", " ">>
q_blank == <<" ">>
q_AI == <<"A", "I">>
q_across_tags == <<"y", " ", "s">>
q_pricing == <<"p", "r", "i", "c", "i", "n", "g">>
q_nomatch == <<"z", "z", "z">>

Queries == {<<>>, q_survey, q_survey_padded, q_blank, q_AI, q_across_tags,
            q_pricing, q_nomatch}

\* What the From and To inputs hand to setFrom and setTo
DateInputs == {"", "2024-05-01", "2024-05-02", "2024-05-03", "not-a-date"}

rec_survey == Insight("n5", str_ISNetworld, txt_Culture, txt_perception,
                      "Product Notes", "2024-05-02T12:00:00Z", <<t_Safety, t_Survey>>)

FilterRecords == {rec_ask, rec_bundle, rec_survey, rec_undated}

\* onChange={(e) => setQuery(e.target.value)}
setQuery(v) ==
  /\ ~cancelled
  /\ query' = v
  /\ UNCHANGED <<insights, competitor, from, to, curated, loading, cancelled,
                 calls, dev, lastLoad, fetched, lastCurated, badgeVars, digestVars>>

\* onChange={(e) => setCompetitor(e.target.value)}
setCompetitor(v) ==
  /\ ~cancelled
  /\ competitor' = v
  /\ UNCHANGED <<insights, query, from, to, curated, loading, cancelled,
                 calls, dev, lastLoad, fetched, lastCurated, badgeVars, digestVars>>

\* onChange={(e) => setFrom(e.target.value)}
setFrom(v) ==
  /\ ~cancelled
  /\ from' = v
  /\ UNCHANGED <<insights, query, competitor, to, curated, loading, cancelled,
                 calls, dev, lastLoad, fetched, lastCurated, badgeVars, digestVars>>

\* onChange={(e) => setTo(e.target.value)}
setTo(v) ==
  /\ ~cancelled
  /\ to' = v
  /\ UNCHANGED <<insights, query, competitor, from, curated, loading, cancelled,
                 calls, dev, lastLoad, fetched, lastCurated, badgeVars, digestVars>>

SetQuery == \E v \in Queries : setQuery(v)
SetCompetitor == \E v \in {str_All} \cup COMPETITORS : setCompetitor(v)
SetFrom == \E v \in DateInputs : setFrom(v)
SetTo == \E v \in DateInputs : setTo(v)

----------------------------------------------------------------------------
(* Digest composer: the markdown memo and the Copy button.  The text is a   *)
(* sequence of lines, each line the sequence of the pieces it is made of.   *)

DigestLimit == 8
MaxDigestInsights == 9

\* mutant: no limit on the items taken
slice_Unbounded(arr, a, b) == SubSeq(arr, a + 1, Len(arr))

\* Array.prototype.slice(a, b)
slice(arr, a, b) ==
  SubSeq(arr, a + 1, IF b < Len(arr) THEN b ELSE Len(arr))

\* The three lines of one item of the digest
digestItem(i) ==
  << <<"- **">> \o i.competitor \o <<"** (dash) ">> \o i.title \o <<"  ">>,
     <<"  ">> \o i.summary \o <<"  ">>,
     <<"  Source: [", i.sourceName, "](", i.sourceUrl, ") (bullet) ">>
       \o (IF getTime(i.date) = NaN THEN <<"Invalid Date">>
           ELSE <<"local time", ToString(getTime(i.date).v)>>) >>

\* items.join("\n\n"), as lines: the items with one empty line between them;
\* the empty string, one empty line, when there is no item
RECURSIVE joinItems(_)
joinItems(items) ==
  IF Len(items) = 0 THEN << <<>> >>
  ELSE IF Len(items) = 1 THEN items[1]
  ELSE items[1] \o << <<>> >> \o joinItems(Tail(items))

\* The heading, the composition time (new Date().toLocaleString(), one fixed
\* piece here), the items and the closing newline
composeDigest(flt) ==
  LET taken == slice(flt, 0, DigestLimit)
      items == [k \in 1..Len(taken) |-> digestItem(taken[k])]
  IN  << <<"# Competitor & Market Update">>, <<>>, <<"composition time">>, <<>> >>
        \o joinItems(items) \o << <<>> >>

\* const markdown = useMemo(..., [filtered])
markdown == composeDigest(filtered)

\* onClick={() => copy(markdown)}: writeText, then setCopied(true)
Copy ==
  /\ ~cancelled
  /\ clipboard' = markdown
  /\ copied' = TRUE
  /\ UNCHANGED <<insights, query, competitor, from, to, curated, loading,
                 cancelled, calls, dev, lastLoad, fetched, lastCurated, badgeVars>>

\* setTimeout(() => setCopied(false), 1200)
CopiedTimeout ==
  /\ ~cancelled
  /\ copied
  /\ copied' = FALSE
  /\ UNCHANGED <<insights, query, competitor, from, to, curated, loading,
                 cancelled, calls, dev, lastLoad, fetched, lastCurated, badgeVars,
                 clipboard>>

----------------------------------------------------------------------------
(* Specifications *)

\* The state every specification starts the App in, but for the insight
\* list and the loading flag.
InitApp ==
  /\ query = <<>>
  /\ competitor = str_All
  /\ from = ""
  /\ to = ""
  /\ curated = <<>>
  /\ cancelled = FALSE
  /\ calls = [fetch |-> 0, json |-> 0]
  /\ dev = FALSE
  /\ lastLoad = "none"
  /\ fetched = {}
  /\ lastCurated = <<>>
  /\ copied = FALSE
  /\ clipboard = <<>>

\* The App from mount: the first load() is in flight.
Init ==
  /\ insights = <<>>
  /\ query = <<>>
  /\ competitor = str_All
  /\ from = ""
  /\ to = ""
  /\ curated \in StoredCurated
  /\ loading = TRUE
  /\ cancelled = FALSE
  /\ calls = [fetch |-> 1, json |-> 0]
  /\ dev \in BOOLEAN
  /\ lastLoad = "none"
  /\ fetched = {}
  /\ lastCurated = <<>>
  /\ copied = FALSE
  /\ clipboard = <<>>
  /\ badgeTags = <<>>
  /\ badge = "unrendered"

Next ==
  \/ Tick
  \/ FetchResolves
  \/ FetchRejects
  \/ JsonResolves
  \/ JsonRejects
  \/ Cleanup
  \/ SkeletonTimeout
  \/ Curate

Spec == Init /\ [][Next]_vars

\* The filter over a loaded list, driven by the four controls.
InitFilter ==
  /\ InitApp
  /\ insights \in SeqsUpTo(FilterRecords, MaxInsights)
  /\ loading = FALSE
  /\ badgeTags = <<>>
  /\ badge = "unrendered"

NextFilter == SetQuery \/ SetCompetitor \/ SetFrom \/ SetTo

SpecFilter == InitFilter /\ [][NextFilter]_vars

\* The digest over a loaded list long enough to pass the limit.
DigestRecords == {rec_ask, rec_bundle, rec_undated}

InitDigest ==
  /\ InitApp
  /\ insights \in SeqsUpTo(DigestRecords, MaxDigestInsights)
  /\ loading = FALSE
  /\ badgeTags = <<>>
  /\ badge = "unrendered"

NextDigest == Copy \/ CopiedTimeout

SpecDigest == InitDigest /\ [][NextDigest]_vars

\* Curating one loaded insight, over the tag lists the generator tells apart.
CardTagVocabulary == {tag_AI, tag_Pricing, tag_E_bidding, t_ai, t_PRICING, t_Survey}

InitCard ==
  /\ InitApp
  /\ \E tags \in SeqsUpTo(CardTagVocabulary, MaxTags) :
       insights = <<Insight("n1", str_Avetta, txt_AskAI, txt_search, "Company Blog",
                            "2024-05-01T12:00:00Z", tags)>>
  /\ loading = FALSE
  /\ badgeTags = <<>>
  /\ badge = "unrendered"

NextCard == Curate

SpecCard == InitCard /\ [][NextCard]_vars

----------------------------------------------------------------------------
(* Severity classifier: inferSeverity and the SeverityBadge component *)

re_pricing == <<"p", "r", "i", "c", "i", "n", "g">>
re_price == <<"p", "r", "i", "c", "e">>
re_bundle == <<"b", "u", "n", "d", "l", "e">>
re_ai == <<"a", "i">>
re_e_bidding == <<"e", "-", "b", "i", "d", "d", "i", "n", "g">>
re_integration == <<"i", "n", "t", "e", "g", "r", "a", "t", "i", "o", "n">>

\* /pricing|price|bundle/.test(t)
CriticalRegex(t) ==
  includes(t, re_pricing) \/ includes(t, re_price) \/ includes(t, re_bundle)

\* /ai|e-bidding|e-bidding|integration/.test(t)
WatchRegex(t) ==
  includes(t, re_ai) \/ includes(t, re_e_bidding) \/ includes(t, re_e_bidding)
    \/ includes(t, re_integration)

\* mutant: the watch rule is evaluated before the critical rule
inferSeverity_WatchFirst(tags) ==
  LET t == toLowerCase(join(tags, <<" ">>))
  IN  IF WatchRegex(t) THEN "watch"
      ELSE IF CriticalRegex(t) THEN "critical"
      ELSE "info"

\* mutant: the tags are tested without being lower-cased
inferSeverity_CaseSensitive(tags) ==
  LET t == join(tags, <<" ">>)
  IN  IF CriticalRegex(t) THEN "critical"
      ELSE IF WatchRegex(t) THEN "watch"
      ELSE "info"

inferSeverity(tags) ==
  LET t == toLowerCase(join(tags, <<" ">>))
  IN  IF CriticalRegex(t) THEN "critical"
      ELSE IF WatchRegex(t) THEN "watch"
      ELSE "info"

TagVocabulary ==
  {tag_AI, tag_Pricing, tag_E_bidding, t_PRICING, t_pricing, t_Repricing,
   t_Price, t_Bundling, t_ai, t_Training, t_Integration, t_Survey, t_Safety}

TagLists == SeqsUpTo(TagVocabulary, MaxTags)

InitSeverity ==
  /\ InitApp
  /\ insights = <<>>
  /\ loading = TRUE
  /\ badgeTags \in TagLists
  /\ badge = "unrendered"

\* function SeverityBadge({ tags }): const s = inferSeverity(tags)
SeverityBadge ==
  /\ badge' = inferSeverity(badgeTags)
  /\ UNCHANGED <<badgeTags, appVars>>

NextSeverity == SeverityBadge

SpecSeverity == InitSeverity /\ [][NextSeverity]_vars

\* Some tag holds the lower-case word w, compared letter by letter without
\* regard to case, at some position.
HasTextAnyCase(tags, w) ==
  \E k \in 1..Len(tags) :
    \E p \in 1..(Len(tags[k]) - Len(w) + 1) :
      \A j \in 1..Len(w) : LowerChar(tags[k][p + j - 1]) = w[j]

MatchesCriticalPattern(tags) ==
  \/ HasTextAnyCase(tags, re_pricing)
  \/ HasTextAnyCase(tags, re_price)
  \/ HasTextAnyCase(tags, re_bundle)

MatchesWatchPattern(tags) ==
  \/ HasTextAnyCase(tags, re_ai)
  \/ HasTextAnyCase(tags, re_e_bidding)
  \/ HasTextAnyCase(tags, re_integration)

\* C6: every tag set that holds "pricing" in any letter case, at any position,
\* is rendered critical; and a tag set that matches a critical pattern and a
\* watch pattern at once is rendered critical, the critical rule being first.
C6_PricingIsCritical ==
  badge # "unrendered" =>
    /\ (HasTextAnyCase(badgeTags, re_pricing) => badge = "critical")
    /\ (MatchesCriticalPattern(badgeTags) /\ MatchesWatchPattern(badgeTags)
          => badge = "critical")

\* C6 witness: an upper-case PRICING in second position, after the AI tag,
\* has been rendered critical.
C6_Witness ==
  /\ badge = "critical"
  /\ badgeTags = <<tag_AI, t_PRICING>>

\* C7: every tag set that holds "ai" and no term of the critical rule
\* (pricing, price, bundle) is rendered watch.
C7_AiIsWatch ==
  (/\ badge # "unrendered"
   /\ HasTextAnyCase(badgeTags, re_ai)
   /\ ~MatchesCriticalPattern(badgeTags)) => badge = "watch"

\* C7 witness: the AI tag next to a tag that matches no rule, rendered watch.
C7_Witness ==
  /\ badge = "watch"
  /\ badgeTags = <<t_Survey, tag_AI>>

----------------------------------------------------------------------------
(* Properties of the filter *)

\* A non-empty string that Date cannot parse
IsMalformed(s) == s # "" /\ s \notin DOMAIN DateValue

\* A record's date is a valid instant inside [frm, t], both inclusive, an
\* empty bound being no bound.
DateWithinBounds(i, frm, t) ==
  /\ i.date \in DOMAIN DateValue
  /\ (frm = "" \/ DateValue[frm] <= DateValue[i.date])
  /\ (t = "" \/ DateValue[i.date] <= DateValue[t])

\* C1: a malformed fromDate or toDate is treated as an absent bound: the
\* filtered list is the one the same controls give with that bound left empty.
C1_MalformedBoundIsAbsent ==
  /\ (IsMalformed(from) =>
        filtered = filterInsights(insights, query, competitor, "", to))
  /\ (IsMalformed(to) =>
        filtered = filterInsights(insights, query, competitor, from, ""))

\* C8: with competitor "All" and an empty query the filter returns exactly
\* the records whose date lies within the inclusive bounds, in their original
\* order; the result is no longer than the input, and empty for an empty input.
C8_DateBoundsOnly ==
  (/\ competitor = str_All
   /\ query = <<>>
   /\ ~IsMalformed(from)
   /\ ~IsMalformed(to)) =>
     /\ filtered = SelectSeq(insights, LAMBDA i : DateWithinBounds(i, from, to))
     /\ Len(filtered) <= Len(insights)
     /\ (insights = <<>> => filtered = <<>>)

\* C8 witness: a record dated exactly at the lower bound is kept and an
\* earlier one dropped.
C8_Witness ==
  /\ competitor = str_All
  /\ query = <<>>
  /\ from = "2024-05-02"
  /\ to = "2024-05-03"
  /\ insights = <<rec_ask, rec_bundle>>
  /\ filtered = <<rec_bundle>>

\* q occurs in s as a contiguous substring, letters compared without regard
\* to case.
ContainsAnyCase(s, q) ==
  \E p \in 1..(Len(s) - Len(q) + 1) :
    \A j \in 1..Len(q) : LowerChar(s[p + j - 1]) = LowerChar(q[j])

\* The query q, as typed, is found in the title, the summary or the tags
\* joined by single spaces.
QueryFound(i, q) ==
  \/ ContainsAnyCase(i.title, q)
  \/ ContainsAnyCase(i.summary, q)
  \/ ContainsAnyCase(join(i.tags, <<" ">>), q)

\* C10 as stated: an empty query passes every record, and a non-empty query
\* passes a record exactly when it is found, without regard to case, in the
\* title, the summary or the joined tags.
C10_QueryAsTyped ==
  \A k \in 1..Len(insights) :
    byQuery(insights[k], normalizedQuery(query))
      <=> (query = <<>> \/ QueryFound(insights[k], query))

\* C10 amended: the query is first stripped of leading and trailing white
\* space; a query that is then empty passes every record, any other passes a
\* record exactly when the stripped query is found, without regard to case,
\* in the title, the summary or the joined tags.
C10_QueryTrimmed ==
  \A k \in 1..Len(insights) :
    byQuery(insights[k], normalizedQuery(query))
      <=> (trim(query) = <<>> \/ QueryFound(insights[k], trim(query)))

\* C10 witness: the lower-case query "survey" keeps the record tagged
\* "Survey" and drops a record that holds the word nowhere.
C10_Witness ==
  /\ query = q_survey
  /\ competitor = str_All
  /\ from = ""
  /\ to = ""
  /\ insights = <<rec_ask, rec_survey>>
  /\ filtered = <<rec_survey>>

----------------------------------------------------------------------------
(* Properties of the battle card generator *)

\* The counters the tags call for, front to back
ExpectedCounters(tags) ==
  (IF \E k \in 1..Len(tags) : tags[k] = tag_E_bidding THEN <<counter_EBidding>> ELSE <<>>)
  \o (IF \E k \in 1..Len(tags) : tags[k] = tag_Pricing THEN <<counter_Pricing>> ELSE <<>>)
  \o (IF \E k \in 1..Len(tags) : tags[k] = tag_AI THEN <<counter_AI>> ELSE <<>>)
  \o <<counter_TimeToValue, counter_Integration, counter_TCO>>

\* C9: the card made from an insight lists the E-bidding message if
\* "E-bidding" is a tag, then the Pricing message if "Pricing" is a tag, then
\* the AI message if "AI" is a tag, then the three base messages; its impact
\* is the AI sentence exactly when "AI" is a tag.
C9_CounterOrder ==
  \A k \in 1..Len(curated) :
    \A n \in 1..Len(insights) :
      insights[n].id = curated[k].id =>
        /\ curated[k].counters = ExpectedCounters(insights[n].tags)
        /\ (curated[k].impact = impact_AI
              <=> \E t \in 1..Len(insights[n].tags) : insights[n].tags[t] = tag_AI)
        /\ curated[k].impact \in {impact_AI, impact_Default}
        /\ (insights[n].tags = <<tag_AI, tag_Pricing>> =>
              curated[k].counters = <<counter_Pricing, counter_AI, counter_TimeToValue,
                                      counter_Integration, counter_TCO>>)

\* C9 witness: an insight tagged AI, Pricing and E-bidding has been curated.
C9_Witness ==
  /\ Len(curated) = 1
  /\ insights[1].tags = <<tag_AI, tag_Pricing, tag_E_bidding>>
  /\ curated[1].counters = <<counter_EBidding, counter_Pricing, counter_AI,
                             counter_TimeToValue, counter_Integration, counter_TCO>>
  /\ curated[1].impact = impact_AI

----------------------------------------------------------------------------
(* Properties of curation and of snapshot loading *)

\* C2: the curated list never holds two cards with one id, and for each id
\* curated so far it holds exactly the card its latest curation made.
C2_OneCardPerId ==
  /\ \A j, k \in 1..Len(curated) : curated[j].id = curated[k].id => j = k
  /\ \A id \in DOMAIN lastCurated :
       \E k \in 1..Len(curated) : curated[k] = lastCurated[id]

\* C2 witness: insight n1 was curated, re-crawled with other content and
\* curated again, with another card curated in between or before.
C2_Witness ==
  /\ DOMAIN lastCurated = {"n1", "n2"}
  /\ curated = <<cardOf(rec_ask2), cardOf(rec_bundle)>>

\* A step in which one load() call runs to its end
LoadFinishes == calls'.fetch + calls'.json < calls.fetch + calls.json

\* C3 as stated: after a load that failed or returned a document that is not
\* an array, the insight list is empty or, in development mode, the seed list.
C3_EmptyAfterFailedLoad ==
  lastLoad \in {"failed", "notArray"} =>
    (insights = <<>> \/ (dev /\ insights = seedInsights))

\* C3 amended: a load that fails or returns a document that is not an array
\* leaves the insight list as it was before (empty when no load has returned
\* an array yet), or, in development mode and after a failure, replaces it by
\* the seed list.
C3_FailedLoadKeepsList ==
  /\ [][(LoadFinishes /\ lastLoad' \in {"failed", "notArray"}) =>
          \/ insights' = insights
          \/ (dev /\ lastLoad' = "failed" /\ insights' = seedInsights)]_vars
  /\ [](fetched = {} => (insights = <<>> \/ (dev /\ insights = seedInsights)))

\* C3 witness: a refresh has failed after an earlier load stored a snapshot,
\* and the snapshot is still the insight list.
C3_Witness ==
  /\ lastLoad = "failed"
  /\ ~dev
  /\ insights \in Snapshots

\* C4: a record whose date does not parse is never stored in the insight
\* list, never counted among the insights and never made into a battle card.
C4_UndatedRejected ==
  /\ \A k \in 1..Len(insights) : getTime(insights[k].date) # NaN
  /\ totalItems = Len(SelectSeq(insights, LAMBDA i : getTime(i.date) # NaN))
  /\ \A id \in DOMAIN lastCurated : lastCurated[id].proof[4] # "Invalid Date"

\* C5: the insight list is the initial empty list, the seed list (in
\* development mode), or the complete array one fetch returned.
C5_WholeSnapshot ==
  \/ insights = <<>>
  \/ (dev /\ insights = seedInsights)
  \/ insights \in fetched

\* C5 witness: two fetches have returned different arrays, the list is one
\* of them and a further load call is in flight.
C5_Witness ==
  /\ Cardinality(fetched) = 2
  /\ insights \in fetched
  /\ inFlight > 0

----------------------------------------------------------------------------
(* Idempotence of the filter *)

\* C11: filtering the filtered list again, with the same query, competitor,
\* fromDate and toDate, returns the filtered list unchanged.
C11_FilterIdempotent ==
  filterInsights(filtered, query, competitor, from, to) = filtered

\* C11 witness: controls that drop one record and keep another, whose
\* result filters to itself.
C11_Witness ==
  /\ insights = <<rec_bundle, rec_survey>>
  /\ competitor = str_ISNetworld
  /\ from = "2024-05-02"
  /\ query = q_across_tags
  /\ filtered = <<rec_survey>>
  /\ filterInsights(filtered, query, competitor, from, to) = <<rec_survey>>

----------------------------------------------------------------------------
(* Properties of the digest *)

\* The first lines of the item blocks of a digest, in the order they appear
ItemHeads(doc) == SelectSeq(doc, LAMBDA line : Len(line) > 0 /\ line[1] = "- **")

\* The digest doc opens with the heading and holds one item block for each of
\* the first 8 records of flt, in the order of flt, and no other item block.
DigestShows(doc, flt) ==
  LET heads == ItemHeads(doc)
      n == IF Len(flt) < 8 THEN Len(flt) ELSE 8
  IN  /\ doc[1] = <<"# Competitor & Market Update">>
      /\ Len(heads) = n
      /\ \A k \in 1..n :
           heads[k] = <<"- **">> \o flt[k].competitor \o <<"** (dash) ">>
                        \o flt[k].title \o <<"  ">>
      /\ (flt = <<>> => heads = <<>>)

\* C12: the digest holds one item block for each of the first 8 insights of
\* the filtered list and no others, in the order of the filtered list, so
\* min(8, length of the filtered list) blocks; for an empty filtered list it
\* holds the heading and no item block.  The same holds of the text copied.
C12_DigestFirstEight ==
  /\ DigestShows(markdown, filtered)
  /\ (clipboard # <<>> => DigestShows(clipboard, filtered))

\* C12 witness: nine insights pass the filter, the eighth and the ninth
\* differ, and the digest copied holds eight item blocks.
C12_Witness ==
  /\ Len(filtered) = 9
  /\ filtered[8] = rec_ask
  /\ filtered[9] = rec_bundle
  /\ clipboard = markdown
  /\ Len(ItemHeads(clipboard)) = 8

----------------------------------------------------------------------------
(* Cancellation of the load effect *)

\* C13: once the load effect is cleaned up, no step changes the insight list
\* or the loading flag, however the load calls still in flight finish, and
\* no new load call is started.
C13_NoEffectAfterCleanup ==
  [][cancelled =>
       /\ insights' = insights
       /\ loading' = loading
       /\ calls'.fetch <= calls.fetch
       /\ inFlight' <= inFlight
       /\ cancelled']_vars

\* C13 witness: the effect was cleaned up while the first load was in
\* flight; the load then returned an array and finished, and the list is
\* still empty and the loading flag still set.
C13_Witness ==
  /\ cancelled
  /\ inFlight = 0
  /\ lastLoad = "ok"
  /\ fetched # {}
  /\ insights = <<>>
  /\ loading

====
